---- MODULE Spec2Model ----
(***************************************************************************)
(* Model of the visual-regression harness of splap/reader:                 *)
(*   scripts/visual-compare.py      (the Judge)                            *)
(*   scripts/compose-comparison.py  (the Composer)                         *)
(* Texts are sequences of characters (one-character strings), indexed      *)
(* from 0 the way Python indexes them; str.find, slicing, str.strip and    *)
(* json.loads are operators computed the way CPython computes them.        *)
(***************************************************************************)
EXTENDS Integers, Sequences, FiniteSets, TLC

VARIABLES
    pc,            \* position of the Judge process in main / compare_screenshots
    fs,            \* the paths that exist in the file system
    api_key,       \* os.environ.get("ANTHROPIC_API_KEY"): "unset", "" or "key"
    anthropic_ok,  \* whether `import anthropic` succeeds
    args,          \* argparse namespace: reference, ios, output
    calls,         \* number of client.messages.create calls made
    message,       \* the outcome of messages.create
    response_text, \* message.content[0].text
    json_str,      \* the extracted content handed to json.loads
    result,        \* the report (the value compare_screenshots returns)
    json_output,   \* json.dumps(result), kept as the value it serializes
    outfile,       \* what was written to args.output
    stdout,        \* the report printed on standard output
    stderr,        \* the diagnostics printed, in order
    exitcode,      \* process exit status, -1 while the process runs
    traceback,     \* the unhandled exception that ended the process, "" if none
    probe,         \* inputs and outputs of the extraction applied to one JSON text
    cpc,           \* position of the Composer process in compose_comparison
    cfs,           \* the files present in the Composer's output directory
    pillow_ok,     \* whether `from PIL import ...` succeeds
    cargs,         \* Composer arguments: book, chapter
    html_path,     \* the path the HTML role resolved to
    images,        \* the opened images, in resolution order
    labels,        \* their labels, in resolution order
    resized_images,\* the images after the height normalization
    output,        \* the canvas: its size, the pastes and the texts drawn
    font,          \* the font the labels are drawn with
    x_offset,      \* the x position of the next image
    cstderr,       \* the Composer's diagnostics, in order
    saved,         \* the paths output.save wrote
    cexit          \* Composer exit status, -1 while the process runs

jvars == <<pc, fs, api_key, anthropic_ok, args, calls, message, response_text,
           json_str, result, json_output, outfile, stdout, stderr, exitcode,
           traceback>>
cvars == <<cpc, cfs, pillow_ok, cargs, html_path, images, labels,
           resized_images, output, font, x_offset, cstderr, saved, cexit>>
vars == <<jvars, probe, cvars>>

----------------------------------------------------------------------------
(* Texts *)

Q == "\""
\* the backquote character (a TLA+ string cannot hold one)
BT == "BACKQUOTE"
FENCE == <<BT, BT, BT>>
JSON_FENCE == <<BT, BT, BT, "j", "s", "o", "n">>
NL == <<"\n">>

Min(a, b) == IF a < b THEN a ELSE b
Max(a, b) == IF a > b THEN a ELSE b

\* str.isspace() characters that can occur in the modelled texts
PyWhitespace == {" ", "\t", "\n", "\r", "\f"}
\* the WHITESPACE pattern of json.decoder: [ \t\n\r]*
JsonWhitespace == {" ", "\t", "\n", "\r"}

\* text[a:b] with Python's clipping and negative indices
PySlice(text, a, b) ==
    LET n == Len(text)
        norm(i) == IF i < 0 THEN Max(n + i, 0) ELSE Min(i, n)
        lo == norm(a)
        hi == norm(b)
    IN IF lo >= hi THEN <<>> ELSE SubSeq(text, lo + 1, hi)

\* text.startswith(pat, i), i a 0-based offset
StartsWithAt(text, pat, i) ==
    /\ i >= 0
    /\ i + Len(pat) <= Len(text)
    /\ \A k \in 1..Len(pat) : text[i + k] = pat[k]

\* text.find(pat, start): the lowest 0-based offset >= start, or -1
PyFind(text, pat, start) ==
    LET hits == {i \in start..(Len(text) - Len(pat)) : StartsWithAt(text, pat, i)}
    IN IF hits = {} THEN -1 ELSE CHOOSE i \in hits : \A j \in hits : i <= j

\* pat in text
PyIn(pat, text) == PyFind(text, pat, 0) # -1

\* text.strip()
PyStrip(text) ==
    LET keep == {i \in 1..Len(text) : text[i] \notin PyWhitespace}
    IN IF keep = {} THEN <<>>
       ELSE LET first == CHOOSE i \in keep : \A j \in keep : i <= j
                last == CHOOSE i \in keep : \A j \in keep : i >= j
            IN SubSeq(text, first, last)

\* compare_screenshots, lines 190-199: the text handed to json.loads
ExtractJsonStr(text) ==
    IF PyIn(JSON_FENCE, text)
    THEN LET start == PyFind(text, JSON_FENCE, 0) + 7
             end == PyFind(text, FENCE, start)
         IN PyStrip(PySlice(text, start, end))
    ELSE IF PyIn(FENCE, text)
    THEN LET start == PyFind(text, FENCE, 0) + 3
             end == PyFind(text, FENCE, start)
         IN PyStrip(PySlice(text, start, end))
    ELSE PyStrip(text)

----------------------------------------------------------------------------
(* Values: Python objects as records of one shape.  t is the type tag; s is  *)
(* the characters of a str, or the source text of a number or literal; items *)
(* is the <<key, value>> pairs of a dict in insertion order (a list's        *)
(* elements are pairs with the empty key).                                   *)

MkStr(chars) == [t |-> "str", s |-> chars, items |-> <<>>]
MkNum(src) == [t |-> "num", s |-> src, items |-> <<>>]
MkLit(src) == [t |-> "lit", s |-> src, items |-> <<>>]
MkDict(pairs) == [t |-> "dict", s |-> <<>>, items |-> pairs]
MkList(pairs) == [t |-> "list", s |-> <<>>, items |-> pairs]
NoValue == [t |-> "none", s |-> <<>>, items |-> <<>>]

\* key in d
DictHas(d, k) == \E i \in 1..Len(d.items) : d.items[i][1] = k

\* d.get(k): None (NoValue) when the key is absent
DictGet(d, k) ==
    IF DictHas(d, k)
    THEN d.items[CHOOSE i \in 1..Len(d.items) : d.items[i][1] = k][2]
    ELSE NoValue

\* d[k] = v: replaces the value in place, or appends the key
DictSet(d, k, v) ==
    IF DictHas(d, k)
    THEN MkDict([i \in 1..Len(d.items) |->
                    IF d.items[i][1] = k THEN <<k, v>> ELSE d.items[i]])
    ELSE MkDict(Append(d.items, <<k, v>>))

----------------------------------------------------------------------------
(* json.loads, after json/decoder.py and json/scanner.py.  Offsets are       *)
(* 0-based as in Python; a result is [ok, next, val, err, at].  Strings are  *)
(* scanned with the single-character escapes; \uXXXX escapes are outside the *)
(* modelled alphabet.                                                        *)

Digits == {"0", "1", "2", "3", "4", "5", "6", "7", "8", "9"}
ControlChars == {"\t", "\n", "\r", "\f"}
SimpleEscapes == {Q, "\\", "/", "b", "f", "n", "r", "t"}

\* s[i:i+1]
CharAt(s, i) == IF i >= 0 /\ i < Len(s) THEN s[i + 1] ELSE ""

Parsed(next, val) == [ok |-> TRUE, next |-> next, val |-> val, err |-> "", at |-> 0]
Failed(err, at) == [ok |-> FALSE, next |-> at, val |-> NoValue, err |-> err, at |-> at]

\* WHITESPACE.match(s, i).end()
SkipWs(s, i) ==
    LET stops == {j \in i..Len(s) : CharAt(s, j) \notin JsonWhitespace}
    IN CHOOSE j \in stops : \A k \in stops : j <= k

\* the end of the run of digits that starts at i
DigitsEnd(s, i) ==
    LET stops == {j \in i..Len(s) : CharAt(s, j) \notin Digits}
    IN CHOOSE j \in stops : \A k \in stops : j <= k

\* NUMBER_RE.match(s, i).end(), or -1:
\* (-?(?:0|[1-9]\d*))(\.\d+)?([eE][-+]?\d+)?
NumberEnd(s, i) ==
    LET a == IF CharAt(s, i) = "-" THEN i + 1 ELSE i
        intEnd == IF CharAt(s, a) = "0" THEN a + 1
                  ELSE IF CharAt(s, a) \in Digits THEN DigitsEnd(s, a)
                  ELSE -1
        fracEnd == IF intEnd # -1 /\ CharAt(s, intEnd) = "."
                      /\ CharAt(s, intEnd + 1) \in Digits
                   THEN DigitsEnd(s, intEnd + 1) ELSE intEnd
        e == IF CharAt(s, fracEnd + 1) \in {"+", "-"} THEN fracEnd + 2 ELSE fracEnd + 1
        expEnd == IF fracEnd # -1 /\ CharAt(s, fracEnd) \in {"e", "E"}
                     /\ CharAt(s, e) \in Digits
                  THEN DigitsEnd(s, e) ELSE fracEnd
    IN expEnd

\* py_scanstring: i is the offset after the opening quote, begin the offset of
\* the quote, acc the characters decoded so far
RECURSIVE ScanString(_, _, _, _)
ScanString(s, i, begin, acc) ==
    LET c == CharAt(s, i)
    IN IF c = "" THEN Failed("Unterminated string starting at", begin)
       ELSE IF c = Q THEN Parsed(i + 1, MkStr(acc))
       ELSE IF c \in ControlChars THEN Failed("Invalid control character at", i)
       ELSE IF c = "\\"
       THEN IF CharAt(s, i + 1) = ""
            THEN Failed("Unterminated string starting at", begin)
            ELSE IF CharAt(s, i + 1) \in SimpleEscapes
            THEN ScanString(s, i + 2, begin, Append(acc, <<"\\", CharAt(s, i + 1)>>))
            ELSE Failed("Invalid \\escape", i)
       ELSE ScanString(s, i + 1, begin, Append(acc, c))

RECURSIVE ScanOnce(_, _), ScanMembers(_, _, _), ScanElements(_, _, _)

\* scanner.py _scan_once: the value that starts at offset i
ScanOnce(s, i) ==
    LET c == CharAt(s, i)
        numEnd == NumberEnd(s, i)
    IN IF c = "" THEN Failed("Expecting value", i)
       ELSE IF c = Q THEN ScanString(s, i + 1, i, <<>>)
       ELSE IF c = "{"
       THEN LET j == IF CharAt(s, i + 1) \in JsonWhitespace
                     THEN SkipWs(s, i + 1) ELSE i + 1
            IN IF CharAt(s, j) = "}" THEN Parsed(j + 1, MkDict(<<>>))
               ELSE IF CharAt(s, j) # Q
               THEN Failed("Expecting property name enclosed in double quotes", j)
               ELSE ScanMembers(s, j, MkDict(<<>>))
       ELSE IF c = "["
       THEN LET j == SkipWs(s, i + 1)
            IN IF CharAt(s, j) = "]" THEN Parsed(j + 1, MkList(<<>>))
               ELSE ScanElements(s, j, <<>>)
       ELSE IF StartsWithAt(s, <<"n", "u", "l", "l">>, i)
       THEN Parsed(i + 4, MkLit(<<"n", "u", "l", "l">>))
       ELSE IF StartsWithAt(s, <<"t", "r", "u", "e">>, i)
       THEN Parsed(i + 4, MkLit(<<"t", "r", "u", "e">>))
       ELSE IF StartsWithAt(s, <<"f", "a", "l", "s", "e">>, i)
       THEN Parsed(i + 5, MkLit(<<"f", "a", "l", "s", "e">>))
       ELSE IF numEnd # -1 THEN Parsed(numEnd, MkNum(PySlice(s, i, numEnd)))
       ELSE IF StartsWithAt(s, <<"N", "a", "N">>, i)
       THEN Parsed(i + 3, MkLit(<<"N", "a", "N">>))
       ELSE IF StartsWithAt(s, <<"I", "n", "f", "i", "n", "i", "t", "y">>, i)
       THEN Parsed(i + 8, MkLit(PySlice(s, i, i + 8)))
       ELSE IF StartsWithAt(s, <<"-", "I", "n", "f", "i", "n", "i", "t", "y">>, i)
       THEN Parsed(i + 9, MkLit(PySlice(s, i, i + 9)))
       ELSE Failed("Expecting value", i)

\* decoder.py JSONObject's loop: i is the offset of a key's opening quote
ScanMembers(s, i, d) ==
    LET key == ScanString(s, i + 1, i, <<>>)
        colon == IF CharAt(s, key.next) # ":" THEN SkipWs(s, key.next) ELSE key.next
        vstart == SkipWs(s, colon + 1)
        val == ScanOnce(s, vstart)
        after == SkipWs(s, val.next)
        knext == SkipWs(s, after + 1)
    IN IF ~key.ok THEN key
       ELSE IF CharAt(s, colon) # ":" THEN Failed("Expecting ':' delimiter", colon)
       ELSE IF ~val.ok THEN val
       ELSE IF CharAt(s, after) = "}"
       THEN Parsed(after + 1, DictSet(d, key.val.s, val.val))
       ELSE IF CharAt(s, after) # "," THEN Failed("Expecting ',' delimiter", after)
       ELSE IF CharAt(s, knext) # Q
       THEN Failed("Expecting property name enclosed in double quotes", knext)
       ELSE ScanMembers(s, knext, DictSet(d, key.val.s, val.val))

\* decoder.py JSONArray's loop: i is the offset where an element starts
ScanElements(s, i, elems) ==
    LET val == ScanOnce(s, i)
        after == SkipWs(s, val.next)
    IN IF ~val.ok THEN val
       ELSE IF CharAt(s, after) = "]"
       THEN Parsed(after + 1, MkList(Append(elems, <<<<>>, val.val>>)))
       ELSE IF CharAt(s, after) # "," THEN Failed("Expecting ',' delimiter", after)
       ELSE ScanElements(s, SkipWs(s, after + 1), Append(elems, <<<<>>, val.val>>))

\* JSONDecoder.decode: one value, surrounded by whitespace, and nothing else
JsonLoads(s) ==
    LET r == ScanOnce(s, SkipWs(s, 0))
        end == SkipWs(s, r.next)
    IN IF ~r.ok THEN r
       ELSE IF end # Len(s) THEN Failed("Extra data", end)
       ELSE r

----------------------------------------------------------------------------
(* The Judge: scripts/visual-compare.py *)

\* dictionary keys and classification strings of visual-compare.py
K_overall ==
    <<"o", "v", "e", "r", "a", "l", "l">>
K_raw_response ==
    <<"r", "a", "w", "_", "r", "e", "s", "p", "o", "n", "s", "e">>
K_parse_error ==
    <<"p", "a", "r", "s", "e", "_", "e", "r", "r", "o", "r">>
K_metadata ==
    <<"_", "m", "e", "t", "a", "d", "a", "t", "a">>
K_reference_path ==
    <<"r", "e", "f", "e", "r", "e", "n", "c", "e", "_", "p", "a", "t", "h">>
K_ios_path ==
    <<"i", "o", "s", "_", "p", "a", "t", "h">>
K_scores ==
    <<"s", "c", "o", "r", "e", "s">>
K_priority_issues ==
    <<"p", "r", "i", "o", "r", "i", "t", "y", "_", "i", "s", "s", "u", "e",
      "s">>
K_detailed_observations ==
    <<"d", "e", "t", "a", "i", "l", "e", "d", "_", "o", "b", "s", "e", "r",
      "v", "a", "t", "i", "o", "n", "s">>
K_suggested_tests ==
    <<"s", "u", "g", "g", "e", "s", "t", "e", "d", "_", "t", "e", "s", "t",
      "s">>
S_PASS ==
    <<"P", "A", "S", "S">>
S_MAJOR_DIFF ==
    <<"M", "A", "J", "O", "R", "_", "D", "I", "F", "F">>
S_ERROR ==
    <<"E", "R", "R", "O", "R">>

\* response bodies the judgment service may send
ObjPass ==
    <<"{", Q, "o", "v", "e", "r", "a", "l", "l", Q, ":", Q, "P", "A", "S",
      "S", Q, "}">>
ObjMajor ==
    <<"{", Q, "o", "v", "e", "r", "a", "l", "l", Q, ":", Q, "M", "A", "J",
      "O", "R", "_", "D", "I", "F", "F", Q, "}">>
ObjNeeds ==
    <<"{", Q, "o", "v", "e", "r", "a", "l", "l", Q, ":", Q, "N", "E", "E",
      "D", "S", "_", "W", "O", "R", "K", Q, ",", Q, "s", "c", "o", "r", "e",
      "s", Q, ":", "{", "}", ",", Q, "p", "r", "i", "o", "r", "i", "t", "y",
      "_", "i", "s", "s", "u", "e", "s", Q, ":", "[", "]", ",", Q, "d", "e",
      "t", "a", "i", "l", "e", "d", "_", "o", "b", "s", "e", "r", "v", "a",
      "t", "i", "o", "n", "s", Q, ":", "{", "}", ",", Q, "s", "u", "g", "g",
      "e", "s", "t", "e", "d", "_", "t", "e", "s", "t", "s", Q, ":", "[",
      "]", "}">>
ObjError ==
    <<"{", Q, "o", "v", "e", "r", "a", "l", "l", Q, ":", Q, "E", "R", "R",
      "O", "R", Q, "}">>
ObjEmpty ==
    <<"{", "}">>
ObjOverallNum ==
    <<"{", Q, "o", "v", "e", "r", "a", "l", "l", Q, ":", "1", "}">>
ObjMeta ==
    <<"{", Q, "_", "m", "e", "t", "a", "d", "a", "t", "a", Q, ":", "1", ",",
      Q, "o", "v", "e", "r", "a", "l", "l", Q, ":", Q, "P", "A", "S", "S", Q,
      "}">>
ListBody ==
    <<"[", Q, "P", "A", "S", "S", Q, "]">>
StrBody ==
    <<Q, "P", "A", "S", "S", Q>>
NumBody ==
    <<"1">>
NullBody ==
    <<"n", "u", "l", "l">>
Junk ==
    <<"n", "o", "t", " ", "j", "s", "o", "n", " ", "a", "t", " ", "a", "l",
      "l">>
Prose ==
    <<"O", "K">>

\* bound: the longest response is MaxSegs segments long
MaxSegs == 3

Bodies ==
    {ObjPass, ObjMajor, ObjNeeds, ObjError, ObjEmpty, ObjOverallNum, ObjMeta,
     ListBody, StrBody, NumBody, NullBody, Junk}
Marks == {FENCE, JSON_FENCE, NL, Prose}

\* the texts made of at most n segments of S
RECURSIVE TextsOver(_, _)
TextsOver(S, n) ==
    IF n = 0 THEN {<<>>}
    ELSE LET shorter == TextsOver(S, n - 1)
         IN shorter \cup {t \o seg : t \in shorter, seg \in S}

\* the response texts of the model: fences, line breaks and prose around
\* one kind of body
Responses == UNION {TextsOver(Marks \cup {b}, MaxSegs) : b \in Bodies}

RefPath == <<"r", "e", "f", ".", "p", "n", "g">>
IosPath == <<"i", "o", "s", ".", "j", "p", "g">>
OutPath == <<"o", "u", "t", ".", "j", "s", "o", "n">>

\* Path(image_path).suffix, for a path of one component
PathSuffix(path) ==
    LET dots == {i \in 2..Len(path) : path[i] = "."}
    IN IF dots = {} THEN <<>>
       ELSE SubSeq(path, CHOOSE i \in dots : \A j \in dots : i >= j, Len(path))

\* encode_image's media_types.get(suffix, "image/png")
MediaType(path) ==
    LET suffix == PathSuffix(path)
    IN IF suffix = <<".", "p", "n", "g">> THEN "image/png"
       ELSE IF suffix = <<".", "j", "p", "g">> THEN "image/jpeg"
       ELSE IF suffix = <<".", "j", "p", "e", "g">> THEN "image/jpeg"
       ELSE IF suffix = <<".", "g", "i", "f">> THEN "image/gif"
       ELSE IF suffix = <<".", "w", "e", "b", "p">> THEN "image/webp"
       ELSE "image/png"

\* mutant: no existence check before the read
encode_image_unchecked(image_path, files) ==
    [raised |-> "", data |-> image_path, media_type |-> MediaType(image_path)]

\* encode_image: FileNotFoundError when the path does not exist, else the
\* file's content (named by its path) and its media type
encode_image(image_path, files) ==
    IF image_path \notin files
    THEN [raised |-> "FileNotFoundError", data |-> <<>>, media_type |-> ""]
    ELSE [raised |-> "", data |-> image_path, media_type |-> MediaType(image_path)]

NoMessage == [outcome |-> "none", content |-> <<>>]

\* the process ends: sys.exit(code), or an unhandled exception (status 1)
Exit(code) == /\ pc' = "exited" /\ exitcode' = code /\ traceback' = ""
Crash(exc) == /\ pc' = "exited" /\ exitcode' = 1 /\ traceback' = exc

\* main, lines 239-246
ValidateFiles ==
    /\ pc = "main"
    /\ UNCHANGED <<probe, cvars>>
    /\ IF args.reference \notin fs
       THEN /\ stderr' = Append(stderr, "Error: Reference image not found")
            /\ Exit(1)
       ELSE IF args.ios \notin fs
       THEN /\ stderr' = Append(stderr, "Error: iOS image not found")
            /\ Exit(1)
       ELSE /\ pc' = "import"
            /\ UNCHANGED <<stderr, exitcode, traceback>>
    /\ UNCHANGED <<fs, api_key, anthropic_ok, args, calls, message, response_text,
                   json_str, result, json_output, outfile, stdout>>

\* compare_screenshots, lines 127-132
ImportAnthropic ==
    /\ pc = "import"
    /\ UNCHANGED <<probe, cvars>>
    /\ IF ~anthropic_ok
       THEN /\ stderr' = Append(stderr, "Error: anthropic package not installed.")
            /\ Exit(1)
       ELSE /\ pc' = "api_key"
            /\ UNCHANGED <<stderr, exitcode, traceback>>
    /\ UNCHANGED <<fs, api_key, anthropic_ok, args, calls, message, response_text,
                   json_str, result, json_output, outfile, stdout>>

\* mutant: only an unset variable counts as missing
KeyMissingUnsetOnly(key) == key = "unset"

\* line 135, `not api_key`: true of None and of the empty string
KeyMissing(key) == key \in {"unset", ""}

\* compare_screenshots, lines 134-137
CheckApiKey ==
    /\ pc = "api_key"
    /\ UNCHANGED <<probe, cvars>>
    /\ IF KeyMissing(api_key)
       THEN /\ stderr' = Append(stderr, "Error: ANTHROPIC_API_KEY environment variable not set.")
            /\ Exit(1)
       ELSE /\ pc' = "call"
            /\ UNCHANGED <<stderr, exitcode, traceback>>
    /\ UNCHANGED <<fs, api_key, anthropic_ok, args, calls, message, response_text,
                   json_str, result, json_output, outfile, stdout>>

\* another process removes an input file between main's check and the read
FileRemoved ==
    /\ pc \in {"import", "api_key", "call"}
    /\ UNCHANGED <<probe, cvars>>
    /\ \E f \in fs : fs' = fs \ {f}
    /\ UNCHANGED <<pc, api_key, anthropic_ok, args, calls, message, response_text,
                   json_str, result, json_output, outfile, stdout, stderr,
                   exitcode, traceback>>

\* what client.messages.create may do: raise, or return a message whose
\* content is empty or one text block
ServiceOutcomes ==
    {[outcome |-> "raised", content |-> <<>>],
     [outcome |-> "returned", content |-> <<>>]}
    \cup {[outcome |-> "returned", content |-> <<t>>] : t \in Responses}

\* compare_screenshots, lines 139-183: encode both images, then one call
CallService ==
    /\ pc = "call"
    /\ UNCHANGED <<probe, cvars>>
    /\ LET ref == encode_image(args.reference, fs)
           ios == encode_image(args.ios, fs)
       IN IF ref.raised # ""
          THEN Crash(ref.raised) /\ UNCHANGED <<calls, message>>
          ELSE IF ios.raised # ""
          THEN Crash(ios.raised) /\ UNCHANGED <<calls, message>>
          ELSE /\ calls' = Append(calls, [ref_media |-> ref.media_type,
                                          ref_data |-> ref.data,
                                          ios_media |-> ios.media_type,
                                          ios_data |-> ios.data])
               /\ \E m \in ServiceOutcomes :
                     /\ message' = m
                     /\ IF m.outcome = "raised"
                        THEN Crash("APIError")
                        ELSE /\ pc' = "extract"
                             /\ UNCHANGED <<exitcode, traceback>>
    /\ UNCHANGED <<fs, api_key, anthropic_ok, args, response_text, json_str,
                   result, json_output, outfile, stdout, stderr>>

\* compare_screenshots, lines 185-199
ExtractJson ==
    /\ pc = "extract"
    /\ UNCHANGED <<probe, cvars>>
    /\ IF message.content = <<>>
       THEN Crash("IndexError") /\ UNCHANGED <<response_text, json_str>>
       ELSE /\ response_text' = message.content[1]
            /\ json_str' = ExtractJsonStr(message.content[1])
            /\ pc' = "parse"
            /\ UNCHANGED <<exitcode, traceback>>
    /\ UNCHANGED <<fs, api_key, anthropic_ok, args, calls, message, result,
                   json_output, outfile, stdout, stderr>>

\* the report built in the except branch, lines 206-210; e is JsonLoads' failure
ErrorReport(text, e) ==
    MkDict(<< <<K_overall, MkStr(S_ERROR)>>,
              <<K_raw_response, MkStr(text)>>,
              <<K_parse_error, MkStr(<<e.err, ToString(e.at)>>)>> >>)

\* mutant: the error report keeps the extracted content, not the raw response
ParseResultKeepsExtract(text, extracted) ==
    LET r == JsonLoads(extracted)
    IN IF r.ok THEN r.val ELSE ErrorReport(extracted, r)

\* compare_screenshots, lines 201-212: the value it returns
ParseResult(text, extracted) ==
    LET r == JsonLoads(extracted)
    IN IF r.ok THEN r.val ELSE ErrorReport(text, r)

ParseJson ==
    /\ pc = "parse"
    /\ UNCHANGED <<probe, cvars>>
    /\ result' = ParseResult(response_text, json_str)
    /\ stderr' = IF JsonLoads(json_str).ok THEN stderr
                 ELSE stderr \o <<"Warning: Failed to parse JSON response", "Raw response">>
    /\ pc' = "metadata"
    /\ UNCHANGED <<fs, api_key, anthropic_ok, args, calls, message, response_text,
                   json_str, json_output, outfile, stdout, exitcode, traceback>>

\* mutant: the two paths stored under each other's key
MetadataSwapped(a) ==
    MkDict(<< <<K_reference_path, MkStr(a.ios)>>,
              <<K_ios_path, MkStr(a.reference)>> >>)

\* the dict main stores under "_metadata", lines 252-255
Metadata(a) ==
    MkDict(<< <<K_reference_path, MkStr(a.reference)>>,
              <<K_ios_path, MkStr(a.ios)>> >>)

\* main, lines 251-255: item assignment raises TypeError unless result is a dict
AddMetadata ==
    /\ pc = "metadata"
    /\ UNCHANGED <<probe, cvars>>
    /\ IF result.t # "dict"
       THEN Crash("TypeError") /\ UNCHANGED result
       ELSE /\ result' = DictSet(result, K_metadata, Metadata(args))
            /\ pc' = "output"
            /\ UNCHANGED <<exitcode, traceback>>
    /\ UNCHANGED <<fs, api_key, anthropic_ok, args, calls, message, response_text,
                   json_str, json_output, outfile, stdout, stderr>>

\* main, lines 257-266: json.dumps(result) is kept as the value it
\* serializes (indent changes the layout of the text only)
WriteOutput ==
    /\ pc = "output"
    /\ UNCHANGED <<probe, cvars>>
    /\ json_output' = result
    /\ IF args.output # <<>>
       THEN /\ outfile' = result
            /\ stdout' = Append(stdout, MkStr(<<"Results written to: ">> \o args.output))
            /\ fs' = fs \cup {args.output}
       ELSE /\ stdout' = Append(stdout, result)
            /\ UNCHANGED <<outfile, fs>>
    /\ pc' = "exit_code"
    /\ UNCHANGED <<api_key, anthropic_ok, args, calls, message, response_text,
                   json_str, result, stderr, exitcode, traceback>>

\* mutant: MAJOR_DIFF and ERROR exchange their codes
ExitCodeSwapped(report) ==
    IF DictGet(report, K_overall) = MkStr(S_PASS) THEN 0
    ELSE IF DictGet(report, K_overall) = MkStr(S_MAJOR_DIFF) THEN 3
    ELSE IF DictGet(report, K_overall) = MkStr(S_ERROR) THEN 2
    ELSE 1

\* main, lines 268-276
ExitCodeFor(report) ==
    IF DictGet(report, K_overall) = MkStr(S_PASS) THEN 0
    ELSE IF DictGet(report, K_overall) = MkStr(S_MAJOR_DIFF) THEN 2
    ELSE IF DictGet(report, K_overall) = MkStr(S_ERROR) THEN 3
    ELSE 1

ExitWithCode ==
    /\ pc = "exit_code"
    /\ UNCHANGED <<probe, cvars>>
    /\ Exit(ExitCodeFor(result))
    /\ UNCHANGED <<fs, api_key, anthropic_ok, args, calls, message, response_text,
                   json_str, result, json_output, outfile, stdout, stderr>>

JudgeIdle ==
    /\ pc = "idle" /\ fs = {} /\ api_key = "unset" /\ anthropic_ok = FALSE
    /\ args = [reference |-> <<>>, ios |-> <<>>, output |-> <<>>]
    /\ calls = <<>> /\ message = NoMessage /\ response_text = <<>>
    /\ json_str = <<>> /\ result = NoValue /\ json_output = NoValue
    /\ outfile = NoValue /\ stdout = <<>> /\ stderr = <<>>
    /\ exitcode = -1 /\ traceback = ""

ProbeIdle ==
    probe = [j |-> <<>>, pre |-> <<>>, post |-> <<>>,
             out |-> [st \in {"fenced_json", "fenced", "bare"} |-> <<>>], done |-> {}]

\* no canvas yet
NoOutput == [size |-> <<0, 0>>, pasted |-> <<>>, texts |-> <<>>]

ComposerIdle ==
    /\ cpc = "idle" /\ cfs = {} /\ pillow_ok = FALSE
    /\ cargs = [book |-> "", chapter |-> ""]
    /\ html_path = <<>> /\ images = <<>> /\ labels = <<>> /\ cstderr = <<>>
    /\ resized_images = <<>> /\ output = NoOutput /\ font = "" /\ x_offset = 0
    /\ saved = <<>> /\ cexit = -1

\* the state when the interpreter enters main
Init ==
    /\ pc = "main"
    /\ fs \in SUBSET {RefPath, IosPath}
    /\ api_key \in {"unset", "", "key"}
    /\ anthropic_ok \in BOOLEAN
    /\ args \in [reference : {RefPath}, ios : {IosPath}, output : {<<>>, OutPath}]
    /\ calls = <<>> /\ message = NoMessage /\ response_text = <<>>
    /\ json_str = <<>> /\ result = NoValue /\ json_output = NoValue
    /\ outfile = NoValue /\ stdout = <<>> /\ stderr = <<>>
    /\ exitcode = -1 /\ traceback = ""
    /\ ProbeIdle
    /\ ComposerIdle

Next ==
    \/ ValidateFiles
    \/ ImportAnthropic
    \/ CheckApiKey
    \/ FileRemoved
    \/ CallService
    \/ ExtractJson
    \/ ParseJson
    \/ AddMetadata
    \/ WriteOutput
    \/ ExitWithCode

Spec == Init /\ [][Next]_vars

----------------------------------------------------------------------------
(* The extraction applied to one JSON object text sent three ways *)

ObjSpaced ==
    <<"{", " ", Q, "o", "v", "e", "r", "a", "l", "l", Q, " ", ":", " ", Q, "P", "A", "S", "S", Q, " ", "}">>
ObjTicks ==
    <<"{", Q, "o", "v", "e", "r", "a", "l", "l", Q, ":", Q, BT, BT, BT, Q, "}">>
ObjTicksJson ==
    <<"{", Q, BT, BT, BT, "j", "s", "o", "n", Q, ":", "1", "}">>

\* bound: at most MaxPad whitespace characters on each side of the text
MaxPad == 1

\* JSON object texts
ObjectTexts ==
    {ObjPass, ObjMajor, ObjNeeds, ObjError, ObjEmpty, ObjOverallNum, ObjMeta,
     ObjSpaced, ObjTicks, ObjTicksJson}
Pads == TextsOver({<<" ">>, NL}, MaxPad)

\* the three ways the service may send the text j
Styles == {"fenced_json", "fenced", "bare"}
Wrapped(style, pre, j, post) ==
    IF style = "fenced_json" THEN JSON_FENCE \o pre \o j \o post \o FENCE
    ELSE IF style = "fenced" THEN FENCE \o pre \o j \o post \o FENCE
    ELSE pre \o j \o post

ExtractInit ==
    /\ JudgeIdle
    /\ ComposerIdle
    /\ \E j \in ObjectTexts, pre \in Pads, post \in Pads :
          probe = [j |-> j, pre |-> pre, post |-> post,
                   out |-> [st \in Styles |-> <<>>], done |-> {}]

\* lines 190-199 applied to the text sent in one style
ExtractStyle(style) ==
    /\ style \notin probe.done
    /\ probe' = [probe EXCEPT
                   !.out[style] = ExtractJsonStr(Wrapped(style, probe.pre, probe.j, probe.post)),
                   !.done = @ \cup {style}]
    /\ UNCHANGED <<jvars, cvars>>

ExtractFencedJson == ExtractStyle("fenced_json")
ExtractFenced == ExtractStyle("fenced")
ExtractBare == ExtractStyle("bare")

ExtractNext == ExtractFencedJson \/ ExtractFenced \/ ExtractBare

ExtractSpec == ExtractInit /\ [][ExtractNext]_vars

----------------------------------------------------------------------------
(* The Composer: scripts/compose-comparison.py *)

Books == {<<"b">>}
Chapters == {<<"1">>, <<"2">>}

\* the f-strings of lines 34-40 and 129
RefFile(book, chapter) ==
    <<"r", "e", "f", "_">> \o book \o <<"_", "c", "h">> \o chapter
        \o <<".", "p", "n", "g">>
HtmlFile(book, chapter) ==
    <<"i", "o", "s", "_">> \o book \o <<"_", "c", "h">> \o chapter
        \o <<"_", "h", "t", "m", "l", ".", "p", "n", "g">>
NativeFile(book, chapter) ==
    <<"i", "o", "s", "_">> \o book \o <<"_", "c", "h">> \o chapter
        \o <<"_", "n", "a", "t", "i", "v", "e", ".", "p", "n", "g">>
IosFile(book, chapter) ==
    <<"i", "o", "s", "_">> \o book \o <<"_", "c", "h">> \o chapter
        \o <<".", "p", "n", "g">>
ComparisonFile(book, chapter) ==
    <<"c", "o", "m", "p", "a", "r", "i", "s", "o", "n", "_">> \o book
        \o <<"_", "c", "h">> \o chapter \o <<".", "p", "n", "g">>

\* the screenshots that may lie in the output directory (all decodable)
Screenshots ==
    UNION {{RefFile(b, c), HtmlFile(b, c), NativeFile(b, c), IosFile(b, c)} :
           b \in Books, c \in Chapters}

ComposerInit ==
    /\ JudgeIdle
    /\ ProbeIdle
    /\ cpc = "import"
    /\ cfs \in SUBSET Screenshots
    /\ pillow_ok \in BOOLEAN
    /\ cargs \in [book : Books, chapter : Chapters]
    /\ html_path = <<>> /\ images = <<>> /\ labels = <<>> /\ cstderr = <<>>
    /\ resized_images = <<>> /\ output = NoOutput /\ font = "" /\ x_offset = 0
    /\ saved = <<>> /\ cexit = -1

\* lines 25-29
ImportPillow ==
    /\ cpc = "import"
    /\ IF ~pillow_ok
       THEN /\ cstderr' = Append(cstderr, "Error: Pillow not installed.")
            /\ cpc' = "exited"
            /\ cexit' = 1
       ELSE /\ cpc' = "paths"
            /\ UNCHANGED <<cstderr, cexit>>
    /\ UNCHANGED <<cfs, pillow_ok, cargs, html_path, images, labels, saved>>
    /\ UNCHANGED <<resized_images, output, font, x_offset>>
    /\ UNCHANGED <<jvars, probe>>

\* lines 35-40: the path of the HTML role
ResolveHtmlPath(book, chapter, files) ==
    IF HtmlFile(book, chapter) \notin files
    THEN IosFile(book, chapter)
    ELSE HtmlFile(book, chapter)

\* lines 31-40
ResolvePaths ==
    /\ cpc = "paths"
    /\ html_path' = ResolveHtmlPath(cargs.book, cargs.chapter, cfs)
    /\ cpc' = "ref"
    /\ UNCHANGED <<cfs, pillow_ok, cargs, images, labels, cstderr, saved, cexit>>
    /\ UNCHANGED <<resized_images, output, font, x_offset>>
    /\ UNCHANGED <<jvars, probe>>

\* the sizes a screenshot may have, in pixels
MinHeight == 2
MaxHeight == 3
MaxWidth == 2
ImageSizes == (1..MaxWidth) \X (MinHeight..MaxHeight)

\* Image.open(path): the bitmap of the file, of the size the file has
Image(path, size) == [path |-> path, width |-> size[1], height |-> size[2]]

\* one `if path.exists(): ... else: print(...)` block of lines 46-62
OpenRole(at, path, label, warning, then) ==
    /\ cpc = at
    /\ IF path \in cfs
       THEN /\ \E size \in ImageSizes : images' = Append(images, Image(path, size))
            /\ labels' = Append(labels, label)
            /\ UNCHANGED cstderr
       ELSE /\ cstderr' = Append(cstderr, warning)
            /\ UNCHANGED <<images, labels>>
    /\ cpc' = then
    /\ UNCHANGED <<cfs, pillow_ok, cargs, html_path, saved, cexit>>
    /\ UNCHANGED <<resized_images, output, font, x_offset>>
    /\ UNCHANGED <<jvars, probe>>

\* lines 46-50
OpenReference ==
    OpenRole("ref", RefFile(cargs.book, cargs.chapter), "Reference (EPUB.js)",
             "Warning: Reference screenshot not found", "html")

\* lines 52-56
OpenHtml ==
    OpenRole("html", html_path, "iOS HTML (WebView)",
             "Warning: iOS HTML screenshot not found", "native")

\* lines 58-62
OpenNative ==
    OpenRole("native", NativeFile(cargs.book, cargs.chapter), "iOS Native",
             "Note: iOS Native screenshot not found", "count")

\* mutant: one image is enough
TooFewImagesOffByOne(imgs) == Len(imgs) < 1

\* line 64
TooFewImages(imgs) == Len(imgs) < 2

\* lines 64-66
CheckCount ==
    /\ cpc = "count"
    /\ IF TooFewImages(images)
       THEN /\ cstderr' = Append(cstderr, "Error: Need at least 2 images to create comparison")
            /\ cpc' = "exited"
            /\ cexit' = 1
       ELSE /\ cpc' = "compose"
            /\ UNCHANGED <<cstderr, cexit>>
    /\ UNCHANGED <<cfs, pillow_ok, cargs, html_path, images, labels, saved>>
    /\ UNCHANGED <<resized_images, output, font, x_offset>>
    /\ UNCHANGED <<jvars, probe>>

\* lines 69-70
label_height == 60
padding == 20

\* line 75: the height of the tallest image
max_height(imgs) ==
    CHOOSE h \in {imgs[i].height : i \in DOMAIN imgs} :
        \A i \in DOMAIN imgs : imgs[i].height <= h

\* mutant: the width is rescaled and the height is kept
ResizeKeepsHeight(img, height) ==
    IF img.height # height
    THEN [img EXCEPT !.width = (img.width * height) \div img.height]
    ELSE img

\* lines 80-83, one image of the loop: int(img.width * (max_height / img.height))
\* is the floor of the exact quotient for every size of ImageSizes (the float
\* product can fall one short of an exact quotient for larger sizes, e.g.
\* width 27, height 3, target 13 gives 116)
ResizeToHeight(img, height) ==
    IF img.height # height
    THEN [img EXCEPT !.width = (img.width * height) \div img.height,
                     !.height = height]
    ELSE img

\* lines 74-84
NormalizeHeights ==
    /\ cpc = "compose"
    /\ resized_images' =
           [i \in DOMAIN images |-> ResizeToHeight(images[i], max_height(images))]
    /\ cpc' = "canvas"
    /\ UNCHANGED <<cfs, pillow_ok, cargs, html_path, images, labels, cstderr,
                   saved, cexit, output, font, x_offset>>
    /\ UNCHANGED <<jvars, probe>>

RECURSIVE SumWidths(_)
\* sum(img.width for img in resized_images)
SumWidths(imgs) ==
    IF imgs = <<>> THEN 0 ELSE Head(imgs).width + SumWidths(Tail(imgs))

\* mutant: padding between the images only
total_width_inner_padding(imgs) == SumWidths(imgs) + padding * (Len(imgs) - 1)

\* line 87
total_width(imgs) == SumWidths(imgs) + padding * (Len(imgs) + 1)

\* line 88
total_height(imgs) == max_height(imgs) + label_height + padding * 2

\* lines 86-92
NewCanvas ==
    /\ cpc = "canvas"
    /\ output' = [size |-> <<total_width(resized_images), total_height(images)>>,
                  pasted |-> <<>>, texts |-> <<>>]
    /\ cpc' = "font"
    /\ UNCHANGED <<cfs, pillow_ok, cargs, html_path, images, labels, cstderr,
                   saved, cexit, resized_images, font, x_offset>>
    /\ UNCHANGED <<jvars, probe>>

\* line 97-101
font_paths ==
    <<"/System/Library/Fonts/Helvetica.ttc",
      "/System/Library/Fonts/SFNSText.ttf",
      "/usr/share/fonts/truetype/dejavu/DejaVuSans.ttf">>

\* lines 102-110: the first font file that exists, the built-in font when
\* there is none or when ImageFont.truetype raises on it
LoadedFont(present, loadable) ==
    LET found == {i \in DOMAIN font_paths : font_paths[i] \in present}
    IN IF found = {} THEN "default"
       ELSE LET first == CHOOSE i \in found : \A j \in found : i <= j
            IN IF font_paths[first] \in loadable
               THEN font_paths[first]
               ELSE "default"

\* lines 94-113
LoadFont ==
    /\ cpc = "font"
    /\ \E present \in SUBSET {font_paths[i] : i \in DOMAIN font_paths} :
       \E loadable \in SUBSET present :
           font' = LoadedFont(present, loadable)
    /\ x_offset' = padding
    /\ cpc' = "paste"
    /\ UNCHANGED <<cfs, pillow_ok, cargs, html_path, images, labels, cstderr,
                   saved, cexit, resized_images, output>>
    /\ UNCHANGED <<jvars, probe>>

\* lines 120-121: the width of the label's bounding box, a property of the
\* font; the built-in font is the narrow one
TextWidth(fnt, label) ==
    LET cells == IF label = "iOS Native" THEN 1 ELSE 2
    IN IF fnt = "default" THEN cells ELSE 2 * cells

\* line 114: zip stops at the shorter sequence
ZipLen == Min(Len(resized_images), Len(labels))

\* mutant: the next image starts where this one ends
NextOffsetNoPadding(x, img) == x + img.width

\* line 126
NextOffset(x, img) == x + img.width + padding

\* lines 114-126, one iteration of the loop
PasteAndLabel ==
    /\ cpc = "paste"
    /\ Len(output.pasted) < ZipLen
    /\ LET i == Len(output.pasted) + 1
           img == resized_images[i]
           label == labels[i]
           y_offset == label_height + padding
           text_width == TextWidth(font, label)
           text_x == x_offset + ((img.width - text_width) \div 2)
           text_y == padding
       IN /\ output' = [output EXCEPT
                 !.pasted = Append(@, [image |-> img, at |-> <<x_offset, y_offset>>]),
                 !.texts = Append(@, [text |-> label, at |-> <<text_x, text_y>>])]
          /\ x_offset' = NextOffset(x_offset, img)
    /\ UNCHANGED <<cpc, cfs, pillow_ok, cargs, html_path, images, labels, cstderr,
                   saved, cexit, resized_images, font>>
    /\ UNCHANGED <<jvars, probe>>

\* lines 128-133, then main returns: the canvas is saved and the process ends
\* with status 0
SaveOutput ==
    /\ cpc = "paste"
    /\ Len(output.pasted) = ZipLen
    /\ saved' = Append(saved, ComparisonFile(cargs.book, cargs.chapter))
    /\ cfs' = cfs \cup {ComparisonFile(cargs.book, cargs.chapter)}
    /\ cpc' = "exited"
    /\ cexit' = 0
    /\ UNCHANGED <<pillow_ok, cargs, html_path, images, labels, cstderr,
                   resized_images, output, font, x_offset>>
    /\ UNCHANGED <<jvars, probe>>

ComposerNext ==
    \/ ImportPillow
    \/ ResolvePaths
    \/ OpenReference
    \/ OpenHtml
    \/ OpenNative
    \/ CheckCount
    \/ NormalizeHeights
    \/ NewCanvas
    \/ LoadFont
    \/ PasteAndLabel
    \/ SaveOutput

ComposerSpec == ComposerInit /\ [][ComposerNext]_vars

----------------------------------------------------------------------------
(* Properties of the Judge, checked under Spec *)

\* the service returned a text and the run is past the extraction / the parse
Extracted == message.content # <<>> /\ pc \notin {"call", "extract"}
Returned == Extracted /\ pc # "parse"
\* the run went through the exit-code step of main
ReachedExitStep == pc = "exited" /\ json_output # NoValue

\* C1: a run that reaches the exit-code step of main exits with a code that
\* depends on the report's `overall` value alone: 0 for "PASS", 2 for
\* "MAJOR_DIFF", 3 for "ERROR", and 1 for every other value, "NEEDS_WORK"
\* and a report without the key included.
C1_ExitCodeFromOverall ==
    ReachedExitStep =>
        LET overall == DictGet(result, K_overall)
        IN /\ exitcode \in {0, 1, 2, 3}
           /\ traceback = ""
           /\ exitcode = 0 <=> overall = MkStr(S_PASS)
           /\ exitcode = 2 <=> overall = MkStr(S_MAJOR_DIFF)
           /\ exitcode = 3 <=> overall = MkStr(S_ERROR)
           /\ (~DictHas(result, K_overall) \/ overall.t # "str") => exitcode = 1

\* a run that ended with code 1 on a report without an `overall` key
C1_Witness ==
    /\ ReachedExitStep
    /\ ~DictHas(result, K_overall)
    /\ exitcode = 1

\* C2: when the content extracted from the response is not valid JSON,
\* compare_screenshots does not raise: it returns a report whose overall is
\* "ERROR" and that keeps the whole raw response text and the description of
\* the parse error, and the process then exits with code 3.
C2_InvalidJsonGivesErrorReport ==
    (Returned /\ ~JsonLoads(json_str).ok) =>
        /\ traceback = ""
        /\ result.t = "dict"
        /\ DictGet(result, K_overall) = MkStr(S_ERROR)
        /\ DictGet(result, K_raw_response) = MkStr(message.content[1])
        /\ DictGet(result, K_parse_error) =
              MkStr(<<JsonLoads(json_str).err, ToString(JsonLoads(json_str).at)>>)
        /\ pc = "exited" => exitcode = 3

\* the response `not json at all` inside a fence ended the run with code 3
C2_Witness ==
    /\ pc = "exited"
    /\ message.content = <<JSON_FENCE \o Junk \o FENCE>>
    /\ json_str = Junk
    /\ exitcode = 3

\* C3: once the service has returned a text, whatever the text is, the run
\* ends with a serialized report written and an exit code of the verdict
\* mapping, never with an unhandled exception.
C3_AlwaysAReport ==
    (pc = "exited" /\ message.content # <<>>) =>
        /\ traceback = ""
        /\ json_output # NoValue
        /\ json_output.t = "dict"
        /\ exitcode \in {0, 1, 2, 3}

\* the keys of the response schema
SchemaKeys ==
    {K_overall, K_scores, K_priority_issues, K_detailed_observations,
     K_suggested_tests}
\* the parse gave a JSON object that has every key of the schema
MatchesSchema(r) ==
    r.ok /\ r.val.t = "dict" /\ \A k \in SchemaKeys : DictHas(r.val, k)

\* C4: a response that does not parse as the expected schema (an object with
\* the keys overall, scores, priority_issues, detailed_observations and
\* suggested_tests) gives a report whose overall is "ERROR" and that carries
\* the raw text: every report serialized for such a response is of that kind.
C4_SchemaOrErrorReport ==
    (json_output # NoValue /\ ~MatchesSchema(JsonLoads(json_str))) =>
        /\ DictGet(json_output, K_overall) = MkStr(S_ERROR)
        /\ DictGet(json_output, K_raw_response) = MkStr(message.content[1])

\* the content of the fence opened by the first occurrence of opener: the
\* text after the opener up to the next fence marker, or up to the end of
\* the text when the fence is never closed
InnerContent(text, opener) ==
    LET start == PyFind(text, opener, 0) + Len(opener)
        close == PyFind(text, FENCE, start)
    IN IF close = -1 THEN PySlice(text, start, Len(text))
       ELSE PySlice(text, start, close)

\* C6: the extraction is first-match-wins: a text that holds a json-labeled
\* fence gives the inner content of that fence, else a text that holds any
\* fence gives the inner content of its first fence, else the whole text;
\* each trimmed of surrounding whitespace.
C6_FirstMatchWins ==
    Extracted =>
        json_str =
            IF PyIn(JSON_FENCE, response_text)
            THEN PyStrip(InnerContent(response_text, JSON_FENCE))
            ELSE IF PyIn(FENCE, response_text)
            THEN PyStrip(InnerContent(response_text, FENCE))
            ELSE PyStrip(response_text)

\* the same, for the texts whose first fence is closed
FirstMatchWinsOnClosedFences ==
    (Extracted /\ (PyIn(FENCE, response_text) =>
                     LET opener == IF PyIn(JSON_FENCE, response_text)
                                   THEN JSON_FENCE ELSE FENCE
                         start == PyFind(response_text, opener, 0) + Len(opener)
                     IN PyFind(response_text, FENCE, start) # -1)) =>
        json_str =
            IF PyIn(JSON_FENCE, response_text)
            THEN PyStrip(InnerContent(response_text, JSON_FENCE))
            ELSE IF PyIn(FENCE, response_text)
            THEN PyStrip(InnerContent(response_text, FENCE))
            ELSE PyStrip(response_text)

\* C7: while the credential is unset or empty, no call to the service is
\* made and no report is serialized or written, the run can always take its
\* next step, and when it has ended its exit code is not 0.
C7_NoCredentialNoCall ==
    api_key \in {"unset", ""} =>
        /\ calls = <<>>
        /\ message = NoMessage
        /\ json_output = NoValue /\ outfile = NoValue /\ stdout = <<>>
        /\ args.output \notin fs
        /\ pc # "exited" => ENABLED Next
        /\ pc = "exited" => exitcode # 0

\* both files exist, the credential is empty, and the run ended at line 137
C7_Witness ==
    /\ pc = "exited"
    /\ api_key = ""
    /\ {args.reference, args.ios} \subseteq fs
    /\ stderr = <<"Error: ANTHROPIC_API_KEY environment variable not set.">>
    /\ exitcode = 1

\* C8: while the reference file or the candidate file does not exist, no
\* call to the service is made and no report is written to the output file
\* or to standard output, the run can always take its next step, and when
\* it has ended its exit code is not 0.
C8_MissingFileNoCall ==
    (args.reference \notin fs \/ args.ios \notin fs) =>
        /\ calls = <<>>
        /\ message = NoMessage
        /\ json_output = NoValue /\ outfile = NoValue /\ stdout = <<>>
        /\ args.output \notin fs
        /\ pc # "exited" => ENABLED Next
        /\ pc = "exited" => exitcode # 0

\* the candidate file is missing, everything else is in place, and the run
\* ended at line 246
C8_Witness ==
    /\ pc = "exited"
    /\ args.reference \in fs /\ args.ios \notin fs
    /\ api_key = "key" /\ anthropic_ok
    /\ stderr = <<"Error: iOS image not found">>
    /\ exitcode = 1

\* the `_metadata` entry main attaches
IsRunMetadata(v) ==
    /\ v.t = "dict"
    /\ Len(v.items) = 2
    /\ DictGet(v, K_reference_path) = MkStr(args.reference)
    /\ DictGet(v, K_ios_path) = MkStr(args.ios)

\* C9: every report that is serialized, written to the output file or
\* printed on standard output is a dict whose `_metadata` entry holds
\* exactly the reference path and the candidate path of the command line.
C9_ReportsCarryMetadata ==
    /\ json_output # NoValue =>
          json_output.t = "dict" /\ IsRunMetadata(DictGet(json_output, K_metadata))
    /\ outfile # NoValue => outfile = json_output
    /\ \A i \in 1..Len(stdout) :
          \/ stdout[i] = json_output /\ json_output # NoValue
          \/ stdout[i] = MkStr(<<"Results written to: ">> \o args.output)

\* a report whose own `_metadata` entry was replaced, printed on stdout
C9_Witness ==
    /\ pc = "exited"
    /\ message.content = <<ObjMeta>>
    /\ stdout = <<json_output>>
    /\ DictGet(json_output, K_overall) = MkStr(S_PASS)

----------------------------------------------------------------------------
(* Property of the extraction, checked under ExtractSpec *)

\* C5: a JSON object text sent in a json-labeled fence, in an unlabeled
\* fence, and bare with optional surrounding whitespace gives the same
\* extracted content all three times.
C5_SameContentThreeWays ==
    probe.done = Styles =>
        /\ probe.out["fenced_json"] = probe.out["fenced"]
        /\ probe.out["fenced"] = probe.out["bare"]

\* the same, for the texts that hold no fence marker: all three give the text
SameContentWithoutBackquotes ==
    (probe.done = Styles /\ ~PyIn(FENCE, probe.j)) =>
        \A st \in Styles : probe.out[st] = probe.j

----------------------------------------------------------------------------
(* Property of the Composer, checked under ComposerSpec *)

\* the roles that resolve to an existing file: the reference, the HTML
\* candidate or its fallback, the native candidate
ResolvedRoles ==
    {r \in {"reference", "html", "native"} :
        \/ r = "reference" /\ RefFile(cargs.book, cargs.chapter) \in cfs
        \/ r = "html" /\ \/ HtmlFile(cargs.book, cargs.chapter) \in cfs
                         \/ IosFile(cargs.book, cargs.chapter) \in cfs
        \/ r = "native" /\ NativeFile(cargs.book, cargs.chapter) \in cfs}

\* C10: with fewer than two roles resolved to an existing file the Composer
\* ends with a non-zero status and never writes comparison_<book>_ch<chapter>.png;
\* with two or more, once Pillow is imported, each missing role adds one
\* diagnostic line and nothing else, and the run ends with status 0 and the
\* comparison file written.
C10_TwoImagesOrNothing ==
    LET n == Cardinality(ResolvedRoles)
        out == ComparisonFile(cargs.book, cargs.chapter)
    IN /\ n < 2 =>
             /\ saved = <<>> /\ out \notin cfs
             /\ cpc = "exited" => cexit # 0
       /\ cpc \in {"count", "compose"} => Len(images) = n
       /\ (n >= 2 /\ pillow_ok /\ cpc = "exited") =>
             /\ cexit = 0
             /\ saved = <<out>> /\ out \in cfs
             /\ Len(images) = n
             /\ Len(cstderr) = 3 - n
       /\ cpc # "exited" => ENABLED ComposerNext

\* only the reference resolves: the run ended with status 1 at line 66
C10_Witness ==
    /\ cpc = "exited"
    /\ ResolvedRoles = {"reference"}
    /\ cexit = 1
    /\ cstderr[Len(cstderr)] = "Error: Need at least 2 images to create comparison"

\* the native candidate is missing, the other two resolve, the file is written
ComposedWithMissingRole ==
    /\ cpc = "exited"
    /\ ResolvedRoles = {"reference", "html"}
    /\ saved # <<>>

\* the run resolved at least two images and normalized their heights
Normalized == cpc \in {"canvas", "font", "paste"} \/ (cpc = "exited" /\ cexit = 0)
\* the run created the canvas
CanvasMade == cpc \in {"font", "paste"} \/ (cpc = "exited" /\ cexit = 0)

\* C11: whenever the Composer has created its canvas, it holds two or three
\* images, the canvas width is the sum of the widths of the images as they
\* are after the rescaling plus 20 for each image and 20 more, and the canvas
\* height is the height of the tallest input image plus 60 plus 2 * 20.
C11_CanvasSize ==
    CanvasMade =>
        LET n == Len(images)
            tallest == output.size[2] - 60 - 2 * 20
        IN /\ n \in {2, 3}
           /\ Len(resized_images) = n
           /\ output.size[1] = SumWidths(resized_images) + 20 * (n + 1)
           /\ \E i \in 1..n : images[i].height = tallest
           /\ \A i \in 1..n : images[i].height <= tallest

\* a saved canvas of three images, one of which was made wider by the
\* rescaling
C11_Witness ==
    /\ cpc = "exited" /\ cexit = 0
    /\ Len(images) = 3
    /\ \E i \in 1..3 : resized_images[i].width > images[i].width
    /\ output.size[1] > images[1].width + images[2].width + images[3].width + 80

\* C12: after the height normalization, with the target height being the
\* height of the tallest input image, an image whose height is the target is
\* the input image itself (same bitmap, same width), every other image has
\* exactly the target height, and so all images have the same height.
C12_NormalizedHeights ==
    Normalized =>
        LET n == Len(images)
            target == CHOOSE h \in {images[i].height : i \in 1..n} :
                          \A i \in 1..n : images[i].height <= h
        IN /\ Len(resized_images) = n
           /\ \A i \in 1..n :
                  /\ resized_images[i].path = images[i].path
                  /\ images[i].height = target => resized_images[i] = images[i]
                  /\ images[i].height # target => resized_images[i].height = target
           /\ \A i, j \in 1..n : resized_images[i].height = resized_images[j].height

\* a normalization that left one image alone and rescaled another one
C12_Witness ==
    /\ Normalized
    /\ \E i, j \in 1..Len(images) :
           /\ resized_images[i] = images[i]
           /\ images[j].height < images[i].height
           /\ resized_images[j].height = images[i].height
           /\ resized_images[j].width # images[j].width

\* the three roles in their fixed order, each with the file it is read from
\* and the label it is drawn under
Roles ==
    LET b == cargs.book
        c == cargs.chapter
    IN << [path |-> RefFile(b, c), label |-> "Reference (EPUB.js)"],
          [path |-> IF HtmlFile(b, c) \in cfs THEN HtmlFile(b, c) ELSE IosFile(b, c),
           label |-> "iOS HTML (WebView)"],
          [path |-> NativeFile(b, c), label |-> "iOS Native"] >>
\* the roles whose file is present, in the same order
PresentRoles == SelectSeq(Roles, LAMBDA r : r.path \in cfs)
\* the run went through the three roles
RolesResolved ==
    cpc \in {"count", "compose", "canvas", "font", "paste"}
        \/ (cpc = "exited" /\ pillow_ok)

\* C13: for every set of present files, once the Composer went through the
\* three roles its images are those of the present roles in the order
\* reference, HTML candidate (ios_<book>_ch<chapter>_html.png if present, else
\* ios_<book>_ch<chapter>.png), native candidate; the i-th paste is the i-th
\* of these images, at the x offset 20 * i plus the widths of the images
\* before it, and the i-th text is the label of that image's role, centred
\* above it; a saved canvas holds every resolved image.
C13_RolesInOrderUnderOwnLabels ==
    RolesResolved =>
        LET n == Len(PresentRoles)
            k == Len(output.pasted)
        IN /\ Len(images) = n /\ Len(labels) = n
           /\ \A i \in 1..n : /\ images[i].path = PresentRoles[i].path
                              /\ labels[i] = PresentRoles[i].label
           /\ k <= n /\ Len(output.texts) = k
           /\ (cpc = "exited" /\ cexit = 0) => k = n
           /\ \A i \in 1..k :
                  LET img == output.pasted[i].image
                      at == output.pasted[i].at
                      txt == output.texts[i]
                  IN /\ img.path = PresentRoles[i].path
                     /\ img = resized_images[i]
                     /\ at[1] = 20 * i + SumWidths(SubSeq(resized_images, 1, i - 1))
                     /\ at[2] = 60 + 20
                     /\ txt.text = PresentRoles[i].label
                     /\ txt.at[2] = 20
                     /\ 2 * (txt.at[1] - at[1]) + TextWidth(font, txt.text)
                            \in {img.width - 1, img.width}

\* a saved canvas of a run without a reference screenshot, the HTML role read
\* from the plain ios file: the two images stand under their own labels
C13_Witness ==
    /\ cpc = "exited" /\ cexit = 0
    /\ RefFile(cargs.book, cargs.chapter) \notin cfs
    /\ HtmlFile(cargs.book, cargs.chapter) \notin cfs
    /\ Len(output.pasted) = 2
    /\ output.pasted[1].image.path = IosFile(cargs.book, cargs.chapter)
    /\ output.texts[1].text = "iOS HTML (WebView)"
    /\ output.pasted[2].image.path = NativeFile(cargs.book, cargs.chapter)
    /\ output.texts[2].text = "iOS Native"
    /\ output.pasted[2].at[1] = 20 + output.pasted[1].image.width + 20

====
